---- MODULE Spec2Model ----
(***************************************************************************)
(* Model of the ENS resolution core of fusion-ens-server                   *)
(* (src/src/services/ensResolver.ts, class ENSResolver, lines 20-608).     *)
(*                                                                         *)
(* A JavaScript string is a sequence of one-character strings, so that     *)
(* lastIndexOf, substring, endsWith, split/pop and replace are computed    *)
(* the way the code computes them.  Positions are 1-based; 0 plays the     *)
(* part of JavaScript's -1 ("not found").                                  *)
(***************************************************************************)
EXTENDS Integers, Sequences, FiniteSets, TLC

VARIABLES
    providers,   \* this.providers: the networks a provider was built for
    op,          \* the public method running: resolveName, getDomainInfo, reverseResolve,
                 \* or one of the private pure helpers applied on its own
    input,       \* the domainName / address / tld argument
    network,     \* the network argument
    pc,          \* position of the invocation (the await it is suspended at)
    parsed,      \* result of parseDomainWithChain
    path,        \* the branch resolveName took: text, multi, native
    coin,        \* result of getCoinType on the multi-chain branch
    node,        \* the name whose namehash keys the pending lookups
    handle,      \* resolverAddress returned by the registry to resolveName / reverseResolve
    infoResolver, \* resolverAddress returned by the registry to getDomainInfo
    owner,       \* owner returned by the registry (getDomainInfo)
    calls,       \* collaborator calls issued so far, in order
    resolved,    \* what resolveName returned (to its caller)
    failedCall,  \* history: the await at which a collaborator round trip failed
    result,      \* what the public method returned to its caller
    lastReply,   \* history: the collaborator reply received last
    decoded,     \* history: the run of bytesToAddress, if there was one
    replyLog,    \* history: the replies the invocation received, in order
    suspended    \* the locals of the invocation that waits at an await while
                 \* this one's handler runs

vars == <<providers, op, input, network, pc, parsed, path, coin, node, handle,
          infoResolver, owner, calls, resolved, failedCall, result,
          lastReply, decoded, replyLog, suspended>>

-----------------------------------------------------------------------------
(* String constants of the program, spelled as character sequences.        *)

s_empty == << >>
s_eth == <<"e","t","h">>
s_dot_eth == <<".","e","t","h">>
s_x == <<"x">>
s_url == <<"u","r","l">>
s_github == <<"g","i","t","h","u","b">>
s_name == <<"n","a","m","e">>
s_bio == <<"b","i","o">>
s_description == <<"d","e","s","c","r","i","p","t","i","o","n">>
s_avatar == <<"a","v","a","t","a","r">>
s_header == <<"h","e","a","d","e","r">>
s_com_twitter == <<"c","o","m",".","t","w","i","t","t","e","r">>
s_com_github == <<"c","o","m",".","g","i","t","h","u","b">>
s_btc == <<"b","t","c">>
s_sol == <<"s","o","l">>
s_doge == <<"d","o","g","e">>
s_xrp == <<"x","r","p">>
s_ltc == <<"l","t","c">>
s_ada == <<"a","d","a">>
s_base == <<"b","a","s","e">>
s_arbi == <<"a","r","b","i">>
s_polygon == <<"p","o","l","y","g","o","n">>
s_avax == <<"a","v","a","x">>
s_bsc == <<"b","s","c">>
s_op == <<"o","p">>
s_zora == <<"z","o","r","a">>
s_linea == <<"l","i","n","e","a">>
s_scroll == <<"s","c","r","o","l","l">>
s_mantle == <<"m","a","n","t","l","e">>
s_celo == <<"c","e","l","o">>
s_gnosis == <<"g","n","o","s","i","s">>
s_fantom == <<"f","a","n","t","o","m">>
s_constructor == <<"c","o","n","s","t","r","u","c","t","o","r">>
s_toString == <<"t","o","S","t","r","i","n","g">>
s_valueOf == <<"v","a","l","u","e","O","f">>
s_foo == <<"f","o","o">>
s_arbitrum == <<"a","r","b","i","t","r","u","m">>
s_avalanche == <<"a","v","a","l","a","n","c","h","e">>
s_optimism == <<"o","p","t","i","m","i","s","m">>

-----------------------------------------------------------------------------
(* String.prototype methods, as the code uses them.                        *)

\* s.lastIndexOf(ch): the last position of ch in s, 0 when there is none.
LastIndexOf(s, ch) ==
    IF \E i \in 1..Len(s) : s[i] = ch
    THEN CHOOSE i \in 1..Len(s) : s[i] = ch /\ \A j \in (i+1)..Len(s) : s[j] # ch
    ELSE 0

\* s.indexOf(pat): the first position at which pat occurs in s, 0 when none.
MatchesAt(s, pat, i) ==
    /\ i >= 1
    /\ i + Len(pat) - 1 <= Len(s)
    /\ \A k \in 1..Len(pat) : s[i + k - 1] = pat[k]

IndexOf(s, pat) ==
    IF \E i \in 1..(Len(s) + 1) : MatchesAt(s, pat, i)
    THEN CHOOSE i \in 1..(Len(s) + 1) :
            MatchesAt(s, pat, i) /\ \A j \in 1..(i-1) : ~MatchesAt(s, pat, j)
    ELSE 0

\* s.endsWith(suf)
EndsWith(s, suf) ==
    /\ Len(suf) <= Len(s)
    /\ MatchesAt(s, suf, Len(s) - Len(suf) + 1)

\* s.split('.').pop(): the text after the last '.', the whole of s without one.
SplitPop(s) == SubSeq(s, LastIndexOf(s, ".") + 1, Len(s))

\* s.replace(pat, ''): s with the FIRST occurrence of the string pat removed.
ReplaceFirst(s, pat) ==
    LET i == IndexOf(s, pat)
    IN  IF i = 0 THEN s
        ELSE SubSeq(s, 1, i - 1) \o SubSeq(s, i + Len(pat), Len(s))

-----------------------------------------------------------------------------
(* parseDomainWithChain                                                    *)

textRecordTypes ==
    {s_x, s_url, s_github, s_name, s_bio, s_description, s_avatar, s_header}

multiChainTLDs ==
    {s_btc, s_sol, s_doge, s_xrp, s_ltc, s_ada, s_base, s_arbi, s_polygon,
     s_avax, s_bsc, s_op, s_zora, s_linea, s_scroll, s_mantle, s_celo,
     s_gnosis, s_fantom}

Threw(msg) == [ok |-> FALSE, error |-> msg, baseDomain |-> s_empty, targetChain |-> s_empty]
Parsed(b, t) == [ok |-> TRUE, error |-> "", baseDomain |-> b, targetChain |-> t]
NotParsed == [ok |-> FALSE, error |-> "none", baseDomain |-> s_empty, targetChain |-> s_empty]

\* Mutant of parseNewFormat: substring(colonIndex) in place of
\* substring(colonIndex + 1), which leaves the colon in the target.
parseNewFormatKeepColon(domainName) ==
    LET colonIndex == LastIndexOf(domainName, ":")
        baseDomain == SubSeq(domainName, 1, colonIndex - 1)
        targetChain == SubSeq(domainName, colonIndex, Len(domainName))
    IN  IF ~EndsWith(baseDomain, s_dot_eth)
        THEN Threw("Invalid format")
        ELSE Parsed(baseDomain, targetChain)

\* Mutant of parseNewFormat: indexOf(':') in place of lastIndexOf(':').
parseNewFormatFirstColon(domainName) ==
    LET colonIndex == IndexOf(domainName, <<":">>)
        baseDomain == SubSeq(domainName, 1, colonIndex - 1)
        targetChain == SubSeq(domainName, colonIndex + 1, Len(domainName))
    IN  IF ~EndsWith(baseDomain, s_dot_eth)
        THEN Threw("Invalid format")
        ELSE Parsed(baseDomain, targetChain)

\* The new format, name.eth:chain (lines 75-86).
parseNewFormat(domainName) ==
    LET colonIndex == LastIndexOf(domainName, ":")
        baseDomain == SubSeq(domainName, 1, colonIndex - 1)
        targetChain == SubSeq(domainName, colonIndex + 1, Len(domainName))
    IN  IF ~EndsWith(baseDomain, s_dot_eth)
        THEN Threw("Invalid format")
        ELSE Parsed(baseDomain, targetChain)

\* Mutant of parseOldFormat: the default branch appends '.eth' to the name.
parseOldFormatAppendEth(domainName) ==
    LET tld == SplitPop(domainName)
    IN  IF tld = s_empty
        THEN Threw("Invalid domain name")
        ELSE IF tld \in textRecordTypes \/ tld \in multiChainTLDs
        THEN Parsed(ReplaceFirst(domainName, <<".">> \o tld) \o s_dot_eth, tld)
        ELSE IF tld = s_eth
        THEN Parsed(domainName, s_eth)
        ELSE Parsed(domainName \o s_dot_eth, s_eth)

\* The old format, name.chain (lines 88-111).
parseOldFormat(domainName) ==
    LET tld == SplitPop(domainName)
    IN  IF tld = s_empty
        THEN Threw("Invalid domain name")
        ELSE IF tld \in textRecordTypes \/ tld \in multiChainTLDs
        THEN Parsed(ReplaceFirst(domainName, <<".">> \o tld) \o s_dot_eth, tld)
        ELSE IF tld = s_eth
        THEN Parsed(domainName, s_eth)
        ELSE Parsed(domainName, s_eth)

parseDomainWithChain(domainName) ==
    IF LastIndexOf(domainName, ":") # 0
    THEN parseNewFormat(domainName)
    ELSE parseOldFormat(domainName)

-----------------------------------------------------------------------------
(* The record classifier of resolveName and the text-record key map.       *)

\* Mutant of classify: the comparison with 'eth' made before the alias test.
classifyEthTestFirst(targetChain) ==
    IF targetChain # s_eth THEN "multi"
    ELSE IF targetChain \in textRecordTypes THEN "text"
    ELSE "native"

\* resolveName, lines 138-151: the includes() test comes first, then the
\* comparison with 'eth'.
classify(targetChain) ==
    IF targetChain \in textRecordTypes THEN "text"
    ELSE IF targetChain # s_eth THEN "multi"
    ELSE "native"

\* textRecordMap (lines 295-304), an object literal.
textRecordMap ==
    {<<s_x, s_com_twitter>>, <<s_url, s_url>>, <<s_github, s_com_github>>,
     <<s_name, s_name>>, <<s_bio, s_description>>,
     <<s_description, s_description>>, <<s_avatar, s_avatar>>,
     <<s_header, s_header>>}

\* textRecordMap[textRecordType] || textRecordType (line 306).  All the
\* values of the map are non-empty, so || only acts for an absent key.
ensTextKey(textRecordType) ==
    IF \E e \in textRecordMap : e[1] = textRecordType
    THEN (CHOOSE e \in textRecordMap : e[1] = textRecordType)[2]
    ELSE textRecordType

-----------------------------------------------------------------------------
(* getCoinType                                                             *)

\* coinTypeMap (lines 327-348), an object literal.
coinTypeMap ==
    {<<s_eth, 60>>, <<s_btc, 0>>, <<s_sol, 501>>, <<s_doge, 3>>,
     <<s_xrp, 144>>, <<s_ltc, 2>>, <<s_ada, 1815>>, <<s_base, 8453>>,
     <<s_arbi, 42161>>, <<s_polygon, 137>>, <<s_avax, 43114>>,
     <<s_bsc, 56>>, <<s_op, 10>>, <<s_zora, 7777777>>, <<s_linea, 59144>>,
     <<s_scroll, 534352>>, <<s_mantle, 5000>>, <<s_celo, 42220>>,
     <<s_gnosis, 100>>, <<s_fantom, 250>>}

coinTypeKeys == {e[1] : e \in coinTypeMap}

\* An object literal inherits from Object.prototype: a lookup by one of
\* these names finds the inherited member, which is neither null nor
\* undefined.
ObjectPrototypeKeys == {s_constructor, s_toString, s_valueOf}

Num(n) == [isNumber |-> TRUE, value |-> n]
\* A value that is not a number (an inherited function object).
NotNum == [isNumber |-> FALSE, value |-> 0]
NoCoin == [isNumber |-> FALSE, value |-> -1]

\* Mutant of getCoinType: || in place of ??, so that a coin type of 0 is
\* replaced as well.
getCoinTypeOr(tld) ==
    IF tld \in coinTypeKeys /\ (CHOOSE e \in coinTypeMap : e[1] = tld)[2] # 0
    THEN Num((CHOOSE e \in coinTypeMap : e[1] = tld)[2])
    ELSE IF tld \in ObjectPrototypeKeys
    THEN NotNum
    ELSE Num(60)

\* coinTypeMap[tld] ?? 60 (line 349): ?? replaces only null and undefined.
getCoinType(tld) ==
    IF tld \in coinTypeKeys
    THEN Num((CHOOSE e \in coinTypeMap : e[1] = tld)[2])
    ELSE IF tld \in ObjectPrototypeKeys
    THEN NotNum
    ELSE Num(60)

-----------------------------------------------------------------------------
(* bytesToAddress                                                          *)
(*                                                                         *)
(* addressBytes is the resolver's '0x...' hex string.  A Buffer is kept as *)
(* its lowercase hex digits, two per byte, which is also what              *)
(* buffer.toString('hex') yields.  The encoders of bitcoinjs-lib,          *)
(* @solana/web3.js and ethers are outside this repository; they are        *)
(* modelled by their argument checks (an encoder throws for an argument it *)
(* does not accept) and an address is written as the encoding's name       *)
(* followed by what is encoded.                                            *)

s_0x == <<"0","x">>
s_underscore == <<"_">>

Rep(ch, n) == [i \in 1..n |-> ch]

\* addressBytes.slice(2): the hex digits after '0x'.
Slice2(s) == SubSeq(s, 3, Len(s))

\* buffer.length and buffer[i] (i from 0) of a Buffer kept as hex digits.
BufLen(buffer) == Len(buffer) \div 2
Byte(buffer, i) == SubSeq(buffer, 2*i + 1, 2*i + 2)
\* buffer.slice(from, to): bytes from..to-1.
BufSlice(buffer, from, to) == SubSeq(buffer, 2*from + 1, 2*to)

Enc(kind, payload) == <<kind>> \o payload

\* `${tld}_${hex}`
HexTagged(tld, hex) == tld \o s_underscore \o hex

\* The network an encoder of bitcoinjs-lib works with: the library's
\* default (bitcoin), used when no network is passed, and dogecoinNetwork
\* (lines 443-453).
bitcoinNetwork ==
    [bech32 |-> "bc", pubKeyHash |-> 0, scriptHash |-> 5, wif |-> 128]
dogecoinNetwork ==
    [bech32 |-> "doge", pubKeyHash |-> 30, scriptHash |-> 22, wif |-> 158]
NoNetwork ==
    [bech32 |-> "", pubKeyHash |-> -1, scriptHash |-> -1, wif |-> -1]

\* What a library call does: returns a value or throws.
LibReturns(v) == [ok |-> TRUE, val |-> v]
LibThrows == [ok |-> FALSE, val |-> s_empty]

\* bitcoin.payments.p2pkh({ hash, network }).address: Base58Check of the
\* network's pubKeyHash version and the 20-byte hash; any other length is
\* rejected.
p2pkhHash(hash, net) ==
    IF BufLen(hash) = 20
    THEN LibReturns(Enc("base58check", <<ToString(net.pubKeyHash)>> \o hash))
    ELSE LibThrows

\* bitcoin.payments.p2pkh({ output, network }).address: output has to be
\* the 25-byte script 76 a9 14 <20-byte hash> 88 ac; the address is that of
\* the hash.
p2pkhOutput(output, net) ==
    IF /\ BufLen(output) = 25
       /\ Byte(output, 0) = <<"7","6">>
       /\ Byte(output, 1) = <<"a","9">>
       /\ Byte(output, 2) = <<"1","4">>
       /\ Byte(output, 23) = <<"8","8">>
       /\ Byte(output, 24) = <<"a","c">>
    THEN p2pkhHash(BufSlice(output, 3, 23), net)
    ELSE LibThrows

\* bitcoin.payments.p2wpkh({ hash }).address: Bech32 of witness version 0
\* and the 20-byte hash.
p2wpkhHash(hash, net) ==
    IF BufLen(hash) = 20
    THEN LibReturns(Enc("bech32", <<net.bech32, "0">> \o hash))
    ELSE LibThrows

\* bitcoin.payments.p2tr({ pubkey }).address: Bech32m of witness version 1
\* and the 32-byte key.  The call needs an elliptic-curve library to have
\* been handed to bitcoinjs-lib, and the key to be a point of the curve:
\* ecc says whether both are so.
p2trPubkey(pubkey, net, ecc) ==
    IF ecc /\ BufLen(pubkey) = 32
    THEN LibReturns(Enc("bech32m", <<net.bech32, "1">> \o pubkey))
    ELSE LibThrows

\* new PublicKey(buffer).toBase58(): a buffer of more than 32 bytes is
\* rejected.
toBase58(buffer) ==
    IF BufLen(buffer) <= 32
    THEN LibReturns(Enc("base58", buffer))
    ELSE LibThrows

\* ethers.getAddress(addressBytes): the checksummed form of '0x' and 40 hex
\* digits; anything else is rejected.
getAddress(addressBytes) ==
    IF Len(addressBytes) = 42 /\ SubSeq(addressBytes, 1, 2) = s_0x
    THEN LibReturns(Enc("checksum", addressBytes))
    ELSE LibThrows

\* One encoder call of a decoding, as the history keeps it.
LibCall(fn, arg, data, net, out) ==
    [fn |-> fn, arg |-> arg, data |-> data, network |-> net, ok |-> out.ok]

\* How a stretch of bytesToAddress ends: it returns val, it throws, or it
\* runs on to the statement after it ("next").
Returns(v, libCalls) == [kind |-> "return", val |-> v, libCalls |-> libCalls]
Throws(libCalls) == [kind |-> "throw", val |-> s_empty, libCalls |-> libCalls]
RunsOn(libCalls) == [kind |-> "next", val |-> s_empty, libCalls |-> libCalls]

\* const address = <call>; if (address) return address;
ReturnAddress(fn, arg, data, net, out) ==
    IF out.ok
    THEN Returns(out.val, <<LibCall(fn, arg, data, net, out)>>)
    ELSE Throws(<<LibCall(fn, arg, data, net, out)>>)

\* Mutant of btcTry: the 22-byte branch hands the whole buffer on.
btcTryWholeBuffer(buffer, ecc) ==
    LET legacy == ReturnAddress("p2pkh", "hash", buffer, bitcoinNetwork,
                                p2pkhHash(buffer, bitcoinNetwork))
    IN  IF BufLen(buffer) = 20
        THEN legacy
        ELSE IF BufLen(buffer) = 22
        THEN IF /\ Byte(buffer, 0) = <<"0","0">>
                /\ Byte(buffer, 1) = <<"1","4">>
                /\ BufLen(BufSlice(buffer, 2, 22)) = 20
             THEN ReturnAddress("p2wpkh", "hash", buffer, bitcoinNetwork,
                                p2wpkhHash(buffer, bitcoinNetwork))
             ELSE legacy
        ELSE IF BufLen(buffer) = 25
        THEN ReturnAddress("p2pkh", "output", buffer, bitcoinNetwork,
                           p2pkhOutput(buffer, bitcoinNetwork))
        ELSE IF BufLen(buffer) = 32
        THEN ReturnAddress("p2tr", "pubkey", buffer, bitcoinNetwork,
                           p2trPubkey(buffer, bitcoinNetwork, ecc))
        ELSE legacy

\* The try block of the btc branch (lines 365-407).
btcTry(buffer, ecc) ==
    LET legacy == ReturnAddress("p2pkh", "hash", buffer, bitcoinNetwork,
                                p2pkhHash(buffer, bitcoinNetwork))
    IN  IF BufLen(buffer) = 20
        THEN legacy
        ELSE IF BufLen(buffer) = 22
        THEN IF /\ Byte(buffer, 0) = <<"0","0">>
                /\ Byte(buffer, 1) = <<"1","4">>
                /\ BufLen(BufSlice(buffer, 2, 22)) = 20
             THEN ReturnAddress("p2wpkh", "hash", BufSlice(buffer, 2, 22),
                                bitcoinNetwork,
                                p2wpkhHash(BufSlice(buffer, 2, 22), bitcoinNetwork))
             ELSE legacy
        ELSE IF BufLen(buffer) = 25
        THEN ReturnAddress("p2pkh", "output", buffer, bitcoinNetwork,
                           p2pkhOutput(buffer, bitcoinNetwork))
        ELSE IF BufLen(buffer) = 32
        THEN ReturnAddress("p2tr", "pubkey", buffer, bitcoinNetwork,
                           p2trPubkey(buffer, bitcoinNetwork, ecc))
        ELSE legacy

\* Mutant of btcCatch: a throw of the length-selected call is followed by
\* the legacy decode.
btcCatchRetry(outcome, buffer) ==
    IF outcome.kind = "return" THEN outcome
    ELSE LET out == p2pkhHash(buffer, bitcoinNetwork)
             all == Append(outcome.libCalls,
                           LibCall("p2pkh", "hash", buffer, bitcoinNetwork, out))
         IN  IF out.ok THEN Returns(out.val, all)
             ELSE Returns(HexTagged(s_btc, buffer), all)

\* The catch of the btc branch and the return after it (lines 408-413).
btcCatch(outcome, buffer) ==
    IF outcome.kind = "return" THEN outcome
    ELSE Returns(HexTagged(s_btc, buffer), outcome.libCalls)

decodeBtc(buffer, ecc) == btcCatch(btcTry(buffer, ecc), buffer)

\* Mutant of solTry: the length test is dropped.
solTryAnyLength(buffer) ==
    ReturnAddress("toBase58", "key", buffer, NoNetwork, toBase58(buffer))

\* The try block of the sol branch (lines 423-427).
solTry(buffer) ==
    IF BufLen(buffer) = 32
    THEN ReturnAddress("toBase58", "key", buffer, NoNetwork, toBase58(buffer))
    ELSE RunsOn(<< >>)

\* The catch of the sol branch and the return after it (lines 428-433).
solCatch(outcome, buffer) ==
    IF outcome.kind = "return" THEN outcome
    ELSE Returns(HexTagged(s_sol, buffer), outcome.libCalls)

decodeSol(buffer) == solCatch(solTry(buffer), buffer)

\* Mutant of dogeTry: the legacy decode is called without the network.
dogeTryBitcoinLegacy(buffer) ==
    IF BufLen(buffer) = 20
    THEN ReturnAddress("p2pkh", "hash", buffer, dogecoinNetwork,
                       p2pkhHash(buffer, dogecoinNetwork))
    ELSE IF BufLen(buffer) = 25
    THEN ReturnAddress("p2pkh", "output", buffer, dogecoinNetwork,
                       p2pkhOutput(buffer, dogecoinNetwork))
    ELSE ReturnAddress("p2pkh", "hash", buffer, bitcoinNetwork,
                       p2pkhHash(buffer, bitcoinNetwork))

\* The try block of the doge branch (lines 441-483).
dogeTry(buffer) ==
    IF BufLen(buffer) = 20
    THEN ReturnAddress("p2pkh", "hash", buffer, dogecoinNetwork,
                       p2pkhHash(buffer, dogecoinNetwork))
    ELSE IF BufLen(buffer) = 25
    THEN ReturnAddress("p2pkh", "output", buffer, dogecoinNetwork,
                       p2pkhOutput(buffer, dogecoinNetwork))
    ELSE ReturnAddress("p2pkh", "hash", buffer, dogecoinNetwork,
                       p2pkhHash(buffer, dogecoinNetwork))

\* The catch of the doge branch and the return after it (lines 484-489).
dogeCatch(outcome, buffer) ==
    IF outcome.kind = "return" THEN outcome
    ELSE Returns(HexTagged(s_doge, buffer), outcome.libCalls)

decodeDoge(buffer) == dogeCatch(dogeTry(buffer), buffer)

\* Mutant of evmTLDs: every code of the coin-type table is on the list.
evmTLDsAllCodes == coinTypeKeys

\* Line 493.
evmTLDs == {s_eth, s_base, s_arbi, s_polygon, s_avax, s_bsc, s_op}

\* The outer try block of bytesToAddress (lines 359-500).
bytesToAddressTry(addressBytes, tld, ecc) ==
    IF tld = s_btc THEN decodeBtc(Slice2(addressBytes), ecc)
    ELSE IF tld = s_sol THEN decodeSol(Slice2(addressBytes))
    ELSE IF tld = s_doge THEN decodeDoge(Slice2(addressBytes))
    ELSE IF tld \in evmTLDs /\ Len(addressBytes) >= 42
    THEN ReturnAddress("getAddress", "address", addressBytes, NoNetwork,
                       getAddress(addressBytes))
    ELSE Returns(HexTagged(tld, addressBytes), << >>)

\* Mutant of bytesToAddressCatch: the error is thrown on to the caller.
bytesToAddressRethrow(outcome, addressBytes) == outcome

\* The outer catch of bytesToAddress (lines 501-504).
bytesToAddressCatch(outcome, addressBytes) ==
    IF outcome.kind = "throw"
    THEN Returns(addressBytes, outcome.libCalls)
    ELSE outcome

bytesToAddress(addressBytes, tld, ecc) ==
    bytesToAddressCatch(bytesToAddressTry(addressBytes, tld, ecc), addressBytes)

\* What the history keeps of a run of bytesToAddress.
NotDecoded ==
    [ran |-> FALSE, addressBytes |-> s_empty, tld |-> s_empty,
     kind |-> "none", val |-> s_empty, libCalls |-> << >>]
Decoding(addressBytes, tld, outcome) ==
    [ran |-> TRUE, addressBytes |-> addressBytes, tld |-> tld,
     kind |-> outcome.kind, val |-> outcome.val, libCalls |-> outcome.libCalls]

-----------------------------------------------------------------------------
(* Bounds of the model, and the inputs and collaborator replies drawn.     *)

\* An input is the concatenation of at most MaxParts pieces.
MaxParts == 3

Pieces ==
    {<<"a">>, <<".">>, <<":">>, s_dot_eth, <<".">> \o s_btc, <<".">> \o s_x,
     <<":">> \o s_btc, <<":">> \o s_x, <<":">> \o s_eth,
     <<":">> \o s_constructor, <<":">> \o s_base, <<":">> \o s_foo}

RECURSIVE Concat(_, _)
Concat(ps, i) == IF i > Len(ps) THEN s_empty ELSE ps[i] \o Concat(ps, i + 1)

\* index.ts (lines 34, 73) turns an empty domainName away.
Inputs ==
    UNION {{Concat(ps, 1) : ps \in [1..n -> Pieces]} : n \in 1..MaxParts}

\* Target strings the classifier and the coin-type table are applied to.
Targets ==
    textRecordTypes \cup coinTypeKeys \cup ObjectPrototypeKeys
        \cup {s_empty, s_foo, <<"a">>, s_com_twitter}
        \cup {s_arbitrum, s_avalanche, s_optimism}

RequestNetworks == {"mainnet", "sepolia", "goerli"}

ZeroAddress == s_0x \o Rep("0", 40)
SomeResolver == s_0x \o Rep("2", 40)
SomeOwner == s_0x \o Rep("3", 40)
SomeAddress == s_0x \o Rep("1", 40)

\* index.ts (line 108) turns away an address that does not start with '0x'.
Addresses ==
    {SomeAddress, s_0x, s_0x \o <<"A","b">>, s_0x \o <<"0","x","A","b">>}

Failed == [ok |-> FALSE, val |-> s_empty]
NoReply == [ok |-> TRUE, val |-> <<"none">>]
Replies(S) == {Failed} \cup {[ok |-> TRUE, val |-> v] : v \in S}
\* The state of bitcoinjs-lib a decoding met, as replyLog keeps it.
LibraryState(ecc) == [ok |-> ecc, val |-> <<"ecc">>]

\* What resolver['addr(bytes32,uint256)'] hands back: no value, no bytes,
\* 20 bytes, 22 bytes (a version 0 witness program of 20 bytes; a first byte
\* other than 0), 25 bytes (a pay-to-pubkey-hash script; other bytes),
\* 32 bytes (two contents), 1 byte, 33 bytes.
BytesReplies ==
    {s_empty,
     s_0x,
     s_0x \o Rep("0", 40),
     s_0x \o <<"0","0","1","4">> \o Rep("1", 40),
     s_0x \o <<"0","1","1","4">> \o Rep("1", 40),
     s_0x \o <<"7","6","a","9","1","4">> \o Rep("1", 40) \o <<"8","8","a","c">>,
     s_0x \o Rep("1", 50),
     s_0x \o Rep("1", 64),
     s_0x \o Rep("0", 64),
     s_0x \o <<"a","b">>,
     s_0x \o Rep("1", 66)}

\* The byte strings bytesToAddress is applied to (line 251 keeps the empty
\* ones from it).
DecodeInputs == BytesReplies \ {s_empty, s_0x}

\* The chain codes bytesToAddress is applied to.
DecodeTlds == coinTypeKeys \cup {s_foo, s_arbitrum, s_avalanche, s_optimism}

TextReplies == {s_empty, <<"h","i">>}
NameReplies == {s_empty, <<"a">> \o s_dot_eth}

-----------------------------------------------------------------------------
(* The resolver object and the values its methods hand back.               *)

\* this.networks (lines 25-36): network key -> config.name
networks == {<<"mainnet", "Mainnet">>, <<"sepolia", "Sepolia">>}
networkKeys == {e[1] : e \in networks}
configName(n) == (CHOOSE e \in networks : e[1] = n)[2]

Pending == [kind |-> "none", val |-> s_empty]
Null == [kind |-> "null", val |-> s_empty]
Str(v) == [kind |-> "string", val |-> v]
Thrown(msg) == [kind |-> "throw", val |-> s_empty, error |-> msg]

\* getProvider and getNetworkConfig (lines 52-66): TRUE when neither throws.
networkSupported(n) == n \in providers /\ n \in networkKeys

\* Mutant of resolveNameCatch: the error is thrown on to the caller.
resolveNameRethrow(outcome) == outcome

\* The catch clause of resolveName (lines 152-155).
resolveNameCatch(outcome) == IF outcome.kind = "throw" THEN Null ELSE outcome

\* The catch clause of getDomainInfo (lines 541-544).
getDomainInfoCatch(outcome) == IF outcome.kind = "throw" THEN Null ELSE outcome

\* The catch clause of reverseResolve (lines 589-592).
reverseResolveCatch(outcome) == IF outcome.kind = "throw" THEN Null ELSE outcome

\* ethers.namehash(name) normalises the name before hashing it and throws
\* for a name that is not a valid ENS name: one with a character outside the
\* ENS alphabet (of the characters drawn here, ':') or with an empty label.
HasEmptyLabel(name) ==
    /\ Len(name) > 0
    /\ \/ name[1] = "."
       \/ name[Len(name)] = "."
       \/ IndexOf(name, <<".", ".">>) # 0

namehashThrows(name) == LastIndexOf(name, ":") # 0 \/ HasEmptyLabel(name)

\* A round trip: the method, its arguments, and the address of the contract
\* it is sent to (empty for the provider and for the registry, whose address
\* is the configured one).
Call(fn, key) ==
    [fn |-> fn, key |-> key, coinType |-> NoCoin, textKey |-> s_empty, to |-> s_empty]
CallCoin(fn, key, c) ==
    [fn |-> fn, key |-> key, coinType |-> c, textKey |-> s_empty, to |-> s_empty]
CallText(fn, key, k) ==
    [fn |-> fn, key |-> key, coinType |-> NoCoin, textKey |-> k, to |-> s_empty]
\* new ethers.Contract(resolverAddress, resolverABI, provider) (lines 188,
\* 235/246, 292, 584): the call goes to the contract at `address`.
At(address, call) == [call EXCEPT !.to = address]

\* The record getDomainInfo returns (lines 534-540).
DomainInfo(name, address, resolverAddress, net, own) ==
    [kind |-> "info", val |-> name,
     address |-> IF address.kind = "string" /\ address.val # s_empty
                 THEN address.val ELSE s_empty,
     resolver |-> resolverAddress,
     network |-> configName(net),
     hasOwner |-> own # ZeroAddress,
     owner |-> IF own # ZeroAddress THEN own ELSE s_empty]

-----------------------------------------------------------------------------
(* resolveName (lines 118-156) with resolveEthDomain (161-198),            *)
(* resolveMultiChainTLD (203-260) and resolveTextRecord (265-321).         *)
(* One action per stretch of code between two awaits.                      *)

\* The locals of an invocation: of one that has not begun, and of the one
\* whose handler runs.
NotStarted ==
    [op |-> "none", input |-> s_empty, network |-> "none", pc |-> "idle",
     parsed |-> NotParsed, path |-> "none", coin |-> NoCoin, node |-> s_empty,
     handle |-> s_empty, infoResolver |-> s_empty, owner |-> s_empty,
     calls |-> << >>, resolved |-> Pending, failedCall |-> "none",
     result |-> Pending, lastReply |-> NoReply, decoded |-> NotDecoded,
     replyLog |-> << >>]
Locals ==
    [op |-> op, input |-> input, network |-> network, pc |-> pc,
     parsed |-> parsed, path |-> path, coin |-> coin, node |-> node,
     handle |-> handle, infoResolver |-> infoResolver, owner |-> owner,
     calls |-> calls, resolved |-> resolved, failedCall |-> failedCall,
     result |-> result, lastReply |-> lastReply, decoded |-> decoded,
     replyLog |-> replyLog]

Init ==
    /\ providers \in SUBSET networkKeys
    /\ op = "none"
    /\ input = s_empty
    /\ network = "none"
    /\ pc = "idle"
    /\ parsed = NotParsed
    /\ path = "none"
    /\ coin = NoCoin
    /\ node = s_empty
    /\ handle = s_empty
    /\ infoResolver = s_empty
    /\ owner = s_empty
    /\ calls = << >>
    /\ resolved = Pending
    /\ failedCall = "none"
    /\ result = Pending
    /\ lastReply = NoReply
    /\ decoded = NotDecoded
    /\ replyLog = << >>
    /\ suspended = NotStarted

\* resolveName returns (or throws) `outcome`; when getDomainInfo is the
\* caller it goes on to build its record (lines 532-544).
ReturnFromResolveName(theOp, name, net, own, outcome) ==
    LET r == resolveNameCatch(outcome)
    IN  /\ resolved' = r
        /\ pc' = "done"
        /\ result' = IF theOp = "resolveName" THEN r
                     ELSE getDomainInfoCatch(
                            IF r.kind = "throw" THEN r
                            ELSE DomainInfo(name, r, infoResolver, net, own))

\* Lines 119-125: up to the await of provider.getBlockNumber().
EnterResolveName(theOp, name, net, own) ==
    IF networkSupported(net)
    THEN /\ calls' = Append(calls, Call("provider.getBlockNumber", s_empty))
         /\ pc' = "r_block"
         /\ UNCHANGED <<resolved, result>>
    ELSE /\ calls' = calls
         /\ ReturnFromResolveName(theOp, name, net, own,
                                  Thrown("Network not supported"))

StartResolveName(name, net) ==
    /\ pc = "idle"
    /\ UNCHANGED <<failedCall, lastReply, decoded, replyLog, suspended>>
    /\ op' = "resolveName"
    /\ input' = name
    /\ network' = net
    /\ EnterResolveName("resolveName", name, net, owner)
    /\ UNCHANGED <<providers, parsed, path, coin, node, handle, infoResolver, owner>>

\* Lines 124-151 and the head of the branch taken, up to the await of
\* ensRegistry.resolver(namehash).
AfterGetBlockNumber(reply) ==
    /\ pc = "r_block"
    /\ failedCall' = IF reply.ok THEN failedCall ELSE pc
    /\ lastReply' = reply
    /\ replyLog' = Append(replyLog, reply)
    /\ UNCHANGED suspended
    /\ UNCHANGED decoded
    /\ IF ~reply.ok
       THEN /\ ReturnFromResolveName(op, input, network, owner, Null)
            /\ UNCHANGED <<parsed, path, node, calls>>
       ELSE LET p == parseDomainWithChain(input)
            IN  /\ parsed' = p
                /\ IF ~p.ok
                   THEN /\ ReturnFromResolveName(op, input, network, owner,
                                                 Thrown(p.error))
                        /\ UNCHANGED <<path, node, calls>>
                   ELSE /\ path' = classify(p.targetChain)
                        /\ node' = p.baseDomain
                        /\ IF namehashThrows(p.baseDomain)
                           THEN /\ ReturnFromResolveName(op, input, network, owner,
                                                         Thrown("invalid ENS name"))
                                /\ calls' = calls
                           ELSE /\ calls' = Append(calls,
                                        Call("registry.resolver", p.baseDomain))
                                /\ pc' = "r_resolver"
                                /\ UNCHANGED <<resolved, result>>
    /\ UNCHANGED <<providers, op, input, network, coin, handle, infoResolver, owner>>

\* From the return of ensRegistry.resolver to the await of the record query
\* (lines 181-191, 224-248, 285-310).
AfterRegistryResolver(reply) ==
    /\ pc = "r_resolver"
    /\ failedCall' = IF reply.ok THEN failedCall ELSE pc
    /\ lastReply' = reply
    /\ replyLog' = Append(replyLog, reply)
    /\ UNCHANGED suspended
    /\ UNCHANGED decoded
    /\ IF ~reply.ok
       THEN /\ ReturnFromResolveName(op, input, network, owner,
                                     Thrown("call failed"))
            /\ UNCHANGED <<handle, coin, calls>>
       ELSE IF reply.val = ZeroAddress
       THEN /\ ReturnFromResolveName(op, input, network, owner, Null)
            /\ UNCHANGED <<handle, coin, calls>>
       ELSE /\ handle' = reply.val
            /\ IF path = "native"
               THEN /\ calls' = Append(calls, At(reply.val, Call("resolver.addr", node)))
                    /\ pc' = "r_addr"
                    /\ UNCHANGED <<coin, resolved, result>>
               ELSE IF path = "text"
               THEN /\ calls' = Append(calls,
                           At(reply.val, CallText("resolver.text", node,
                                    ensTextKey(parsed.targetChain))))
                    /\ pc' = "r_text"
                    /\ UNCHANGED <<coin, resolved, result>>
               ELSE LET coinType == getCoinType(parsed.targetChain)
                    IN  /\ coin' = coinType
                        /\ IF coinType = Num(60)
                           THEN /\ calls' = Append(calls, At(reply.val, Call("resolver.addr", node)))
                                /\ pc' = "r_addr"
                                /\ UNCHANGED <<resolved, result>>
                           ELSE IF ~coinType.isNumber
                           THEN \* the uint256 argument cannot be encoded
                                /\ ReturnFromResolveName(op, input, network, owner,
                                        Thrown("invalid argument"))
                                /\ calls' = calls
                           ELSE /\ calls' = Append(calls,
                                       At(reply.val, CallCoin("resolver.addrCoin", node, coinType)))
                                /\ pc' = "r_addrcoin"
                                /\ UNCHANGED <<resolved, result>>
    /\ UNCHANGED <<providers, op, input, network, parsed, path, node, infoResolver, owner>>

\* Mutant of AfterAddr: the zero-address test of line 193 is dropped.
AfterAddrNoZeroTest(reply) ==
    /\ pc = "r_addr"
    /\ failedCall' = IF reply.ok THEN failedCall ELSE pc
    /\ lastReply' = reply
    /\ replyLog' = Append(replyLog, reply)
    /\ UNCHANGED suspended
    /\ UNCHANGED decoded
    /\ ReturnFromResolveName(op, input, network, owner,
          IF ~reply.ok THEN Thrown("call failed")
          ELSE Str(reply.val))
    /\ UNCHANGED <<providers, op, input, network, parsed, path, coin, node, handle,
                   infoResolver, owner, calls>>

\* resolver.addr(namehash) returns (lines 191-197, 238-244).
AfterAddr(reply) ==
    /\ pc = "r_addr"
    /\ failedCall' = IF reply.ok THEN failedCall ELSE pc
    /\ lastReply' = reply
    /\ replyLog' = Append(replyLog, reply)
    /\ UNCHANGED suspended
    /\ UNCHANGED decoded
    /\ ReturnFromResolveName(op, input, network, owner,
          IF ~reply.ok THEN Thrown("call failed")
          ELSE IF reply.val = ZeroAddress THEN Null
          ELSE Str(reply.val))
    /\ UNCHANGED <<providers, op, input, network, parsed, path, coin, node, handle,
                   infoResolver, owner, calls>>

\* Mutant of AfterAddrCoin: the test of lines 251-254 is dropped.
AfterAddrCoinNoEmptyTest(reply, ecc) ==
    LET isEmpty == FALSE
        outcome == bytesToAddress(reply.val, parsed.targetChain, ecc)
    IN  /\ pc = "r_addrcoin"
        /\ failedCall' = IF reply.ok THEN failedCall ELSE pc
        /\ lastReply' = reply
        /\ replyLog' = Append(Append(replyLog, reply), LibraryState(ecc))
        /\ UNCHANGED suspended
        /\ decoded' = IF reply.ok /\ ~isEmpty
                      THEN Decoding(reply.val, parsed.targetChain, outcome)
                      ELSE decoded
        /\ ReturnFromResolveName(op, input, network, owner,
              IF ~reply.ok THEN Thrown("call failed")
              ELSE IF isEmpty THEN Null
              ELSE IF outcome.kind = "return" THEN Str(outcome.val)
              ELSE Thrown("bytesToAddress"))
        /\ UNCHANGED <<providers, op, input, network, parsed, path, coin, node, handle,
                       infoResolver, owner, calls>>

\* resolver['addr(bytes32,uint256)'] returns (lines 248-258).
AfterAddrCoin(reply, ecc) ==
    LET isEmpty == reply.val = s_empty \/ reply.val = s_0x
        outcome == bytesToAddress(reply.val, parsed.targetChain, ecc)
    IN  /\ pc = "r_addrcoin"
        /\ failedCall' = IF reply.ok THEN failedCall ELSE pc
        /\ lastReply' = reply
        /\ replyLog' = Append(Append(replyLog, reply), LibraryState(ecc))
        /\ UNCHANGED suspended
        /\ decoded' = IF reply.ok /\ ~isEmpty
                      THEN Decoding(reply.val, parsed.targetChain, outcome)
                      ELSE decoded
        /\ ReturnFromResolveName(op, input, network, owner,
              IF ~reply.ok THEN Thrown("call failed")
              ELSE IF isEmpty THEN Null
              ELSE IF outcome.kind = "return" THEN Str(outcome.val)
              ELSE Thrown("bytesToAddress"))
        /\ UNCHANGED <<providers, op, input, network, parsed, path, coin, node, handle,
                       infoResolver, owner, calls>>

\* Mutant of AfterText: a failed resolver.text call is issued again.
AfterTextRetry(reply) ==
    /\ pc = "r_text"
    /\ failedCall' = IF reply.ok THEN failedCall ELSE pc
    /\ lastReply' = reply
    /\ replyLog' = Append(replyLog, reply)
    /\ UNCHANGED suspended
    /\ UNCHANGED decoded
    /\ IF reply.ok
       THEN /\ ReturnFromResolveName(op, input, network, owner,
                  IF reply.val = s_empty THEN Null ELSE Str(reply.val))
            /\ UNCHANGED calls
       ELSE /\ calls' = Append(calls, calls[Len(calls)])
            /\ UNCHANGED <<pc, resolved, result>>
    /\ UNCHANGED <<providers, op, input, network, parsed, path, coin, node, handle,
                   infoResolver, owner>>

\* resolver.text(namehash, key) returns (lines 308-320); the inner catch
\* turns a failed call into null.
AfterText(reply) ==
    /\ pc = "r_text"
    /\ failedCall' = IF reply.ok THEN failedCall ELSE pc
    /\ lastReply' = reply
    /\ replyLog' = Append(replyLog, reply)
    /\ UNCHANGED suspended
    /\ UNCHANGED decoded
    /\ ReturnFromResolveName(op, input, network, owner,
          IF ~reply.ok THEN Null
          ELSE IF reply.val = s_empty THEN Null
          ELSE Str(reply.val))
    /\ UNCHANGED <<providers, op, input, network, parsed, path, coin, node, handle,
                   infoResolver, owner, calls>>

-----------------------------------------------------------------------------
(* getDomainInfo (lines 510-545)                                           *)

ReturnFromGetDomainInfo(outcome) ==
    /\ result' = getDomainInfoCatch(outcome)
    /\ pc' = "done"

\* Lines 511-525: up to the await of ensRegistry.resolver(namehash).
StartGetDomainInfo(name, net) ==
    /\ pc = "idle"
    /\ UNCHANGED <<failedCall, lastReply, decoded, replyLog, suspended>>
    /\ op' = "getDomainInfo"
    /\ input' = name
    /\ network' = net
    /\ IF ~networkSupported(net)
       THEN /\ ReturnFromGetDomainInfo(Thrown("Network not supported"))
            /\ UNCHANGED <<node, calls>>
       ELSE IF namehashThrows(name)
       THEN /\ ReturnFromGetDomainInfo(Thrown("invalid ENS name"))
            /\ UNCHANGED <<node, calls>>
       ELSE /\ node' = name
            /\ calls' = Append(calls, Call("registry.resolver", name))
            /\ pc' = "d_resolver"
            /\ UNCHANGED result
    /\ UNCHANGED <<providers, parsed, path, coin, handle, infoResolver, owner, resolved>>

\* Lines 525-526: resolver returned, owner is asked for.
AfterInfoResolver(reply) ==
    /\ pc = "d_resolver"
    /\ failedCall' = IF reply.ok THEN failedCall ELSE pc
    /\ lastReply' = reply
    /\ replyLog' = Append(replyLog, reply)
    /\ UNCHANGED suspended
    /\ UNCHANGED decoded
    /\ IF ~reply.ok
       THEN /\ ReturnFromGetDomainInfo(Thrown("call failed"))
            /\ UNCHANGED <<infoResolver, calls>>
       ELSE /\ infoResolver' = reply.val
            /\ calls' = Append(calls, Call("registry.owner", node))
            /\ pc' = "d_owner"
            /\ UNCHANGED result
    /\ UNCHANGED <<providers, op, input, network, parsed, path, coin, node, handle,
                   owner, resolved>>

\* Lines 526-532: owner returned; the zero test on the resolver, then the
\* call of resolveName with the same domainName.
AfterInfoOwner(reply) ==
    /\ pc = "d_owner"
    /\ failedCall' = IF reply.ok THEN failedCall ELSE pc
    /\ lastReply' = reply
    /\ replyLog' = Append(replyLog, reply)
    /\ UNCHANGED suspended
    /\ UNCHANGED decoded
    /\ IF ~reply.ok
       THEN /\ ReturnFromGetDomainInfo(Thrown("call failed"))
            /\ UNCHANGED <<owner, calls, resolved>>
       ELSE /\ owner' = reply.val
            /\ IF infoResolver = ZeroAddress
               THEN /\ ReturnFromGetDomainInfo(Null)
                    /\ UNCHANGED <<calls, resolved>>
               ELSE EnterResolveName("getDomainInfo", input, network, reply.val)
    /\ UNCHANGED <<providers, op, input, network, parsed, path, coin, node, handle,
                   infoResolver>>

-----------------------------------------------------------------------------
(* reverseResolve (lines 550-593)                                          *)

s_addr_reverse == <<".","a","d","d","r",".","r","e","v","e","r","s","e">>

\* String.prototype.toLowerCase, on the letters the addresses drawn hold.
LowerChar(c) ==
    CASE c = "A" -> "a" [] c = "B" -> "b" [] c = "C" -> "c" [] c = "D" -> "d"
      [] c = "E" -> "e" [] c = "F" -> "f" [] c = "X" -> "x" [] OTHER -> c

ToLowerCase(s) == [i \in 1..Len(s) |-> LowerChar(s[i])]

\* Mutant of reverseName: toLowerCase is left out.
reverseNameAsGiven(address) == Slice2(address) \o s_addr_reverse

\* `${address.slice(2).toLowerCase()}.addr.reverse` (line 570)
reverseName(address) == ToLowerCase(Slice2(address)) \o s_addr_reverse

ReturnFromReverseResolve(outcome) ==
    /\ result' = reverseResolveCatch(outcome)
    /\ pc' = "done"

\* Lines 551-574: up to the await of reverseResolver.resolver(reverseNamehash).
StartReverseResolve(address, net) ==
    /\ pc = "idle"
    /\ UNCHANGED <<failedCall, lastReply, decoded, replyLog, suspended>>
    /\ op' = "reverseResolve"
    /\ input' = address
    /\ network' = net
    /\ IF ~networkSupported(net)
       THEN /\ ReturnFromReverseResolve(Thrown("Network not supported"))
            /\ UNCHANGED <<node, calls>>
       ELSE IF namehashThrows(reverseName(address))
       THEN /\ ReturnFromReverseResolve(Thrown("invalid ENS name"))
            /\ UNCHANGED <<node, calls>>
       ELSE /\ node' = reverseName(address)
            /\ calls' = Append(calls, Call("registry.resolver", reverseName(address)))
            /\ pc' = "v_resolver"
            /\ UNCHANGED result
    /\ UNCHANGED <<providers, parsed, path, coin, handle, infoResolver, owner, resolved>>

\* Lines 574-585: resolver returned, name is asked for.
AfterReverseResolver(reply) ==
    /\ pc = "v_resolver"
    /\ failedCall' = IF reply.ok THEN failedCall ELSE pc
    /\ lastReply' = reply
    /\ replyLog' = Append(replyLog, reply)
    /\ UNCHANGED suspended
    /\ UNCHANGED decoded
    /\ IF ~reply.ok
       THEN /\ ReturnFromReverseResolve(Thrown("call failed"))
            /\ UNCHANGED <<handle, calls>>
       ELSE IF reply.val = ZeroAddress
       THEN /\ ReturnFromReverseResolve(Null)
            /\ UNCHANGED <<handle, calls>>
       ELSE /\ handle' = reply.val
            /\ calls' = Append(calls, At(reply.val, Call("resolver.name", node)))
            /\ pc' = "v_name"
            /\ UNCHANGED result
    /\ UNCHANGED <<providers, op, input, network, parsed, path, coin, node,
                   infoResolver, owner, resolved>>

\* Lines 585-588: return name || null.
AfterName(reply) ==
    /\ pc = "v_name"
    /\ failedCall' = IF reply.ok THEN failedCall ELSE pc
    /\ lastReply' = reply
    /\ replyLog' = Append(replyLog, reply)
    /\ UNCHANGED suspended
    /\ UNCHANGED decoded
    /\ ReturnFromReverseResolve(
          IF ~reply.ok THEN Thrown("call failed")
          ELSE IF reply.val = s_empty THEN Null
          ELSE Str(reply.val))
    /\ UNCHANGED <<providers, op, input, network, parsed, path, coin, node, handle,
                   infoResolver, owner, calls, resolved>>

-----------------------------------------------------------------------------
(* The specification of the three public methods.                          *)

CallResolveName ==
    /\ pc = "idle"
    /\ \E name \in Inputs, net \in RequestNetworks : StartResolveName(name, net)

CallGetDomainInfo ==
    /\ pc = "idle"
    /\ \E name \in Inputs, net \in RequestNetworks : StartGetDomainInfo(name, net)

CallReverseResolve ==
    /\ pc = "idle"
    /\ \E address \in Addresses, net \in RequestNetworks :
          StartReverseResolve(address, net)

ReturnAddrCoin ==
    /\ pc = "r_addrcoin"
    /\ \E reply \in Replies(BytesReplies), ecc \in BOOLEAN :
          AfterAddrCoin(reply, ecc)

\* A handler runs from the return of the await it waits at.
Resume ==
    \/ \E reply \in Replies({s_empty}) : AfterGetBlockNumber(reply)
    \/ \E reply \in Replies({ZeroAddress, SomeResolver}) : AfterRegistryResolver(reply)
    \/ \E reply \in Replies({ZeroAddress, SomeAddress}) : AfterAddr(reply)
    \/ ReturnAddrCoin
    \/ \E reply \in Replies(TextReplies) : AfterText(reply)
    \/ \E reply \in Replies({ZeroAddress, SomeResolver}) : AfterInfoResolver(reply)
    \/ \E reply \in Replies({ZeroAddress, SomeOwner}) : AfterInfoOwner(reply)
    \/ \E reply \in Replies({ZeroAddress, SomeResolver}) : AfterReverseResolver(reply)
    \/ \E reply \in Replies(NameReplies) : AfterName(reply)

Next ==
    \/ CallResolveName
    \/ CallGetDomainInfo
    \/ CallReverseResolve
    \/ Resume

Spec == Init /\ [][Next]_vars

-----------------------------------------------------------------------------
(* Two invocations in flight on the shared ENSResolver (index.ts line 17). *)
(* Node runs one handler at a time, from an await's return to the next     *)
(* await; the locals of the invocation that waits are kept in suspended.   *)

\* Mutant of Switch: parsed belongs to the resolver object, not to the
\* invocation, and stays as the handler that ran last left it.
SwitchSharedParsed ==
    /\ pc # "idle"
    /\ suspended.pc # "done"
    /\ suspended' = Locals
    /\ op' = suspended.op
    /\ input' = suspended.input
    /\ network' = suspended.network
    /\ pc' = suspended.pc
    /\ parsed' = parsed
    /\ path' = suspended.path
    /\ coin' = suspended.coin
    /\ node' = suspended.node
    /\ handle' = suspended.handle
    /\ infoResolver' = suspended.infoResolver
    /\ owner' = suspended.owner
    /\ calls' = suspended.calls
    /\ resolved' = suspended.resolved
    /\ failedCall' = suspended.failedCall
    /\ result' = suspended.result
    /\ lastReply' = suspended.lastReply
    /\ decoded' = suspended.decoded
    /\ replyLog' = suspended.replyLog
    /\ UNCHANGED providers

\* The running invocation is at an await (or at its end) and the event loop
\* turns to the other one: every local is the invocation's own.
Switch ==
    /\ pc # "idle"
    /\ suspended.pc # "done"
    /\ suspended' = Locals
    /\ op' = suspended.op
    /\ input' = suspended.input
    /\ network' = suspended.network
    /\ pc' = suspended.pc
    /\ parsed' = suspended.parsed
    /\ path' = suspended.path
    /\ coin' = suspended.coin
    /\ node' = suspended.node
    /\ handle' = suspended.handle
    /\ infoResolver' = suspended.infoResolver
    /\ owner' = suspended.owner
    /\ calls' = suspended.calls
    /\ resolved' = suspended.resolved
    /\ failedCall' = suspended.failedCall
    /\ result' = suspended.result
    /\ lastReply' = suspended.lastReply
    /\ decoded' = suspended.decoded
    /\ replyLog' = suspended.replyLog
    /\ UNCHANGED providers

\* The requests of the two invocations.
ConcInputs ==
    {<<"a">> \o s_dot_eth, <<"a">> \o s_dot_eth \o <<":">> \o s_btc,
     <<"a">> \o <<".">> \o s_x}
ConcAddresses == {s_0x \o <<"A","b">>}
ConcNetworks == {"mainnet"}

ConcCallResolveName ==
    /\ pc = "idle"
    /\ \E name \in ConcInputs, net \in ConcNetworks : StartResolveName(name, net)

ConcCallGetDomainInfo ==
    /\ pc = "idle"
    /\ \E name \in ConcInputs, net \in ConcNetworks : StartGetDomainInfo(name, net)

ConcCallReverseResolve ==
    /\ pc = "idle"
    /\ \E address \in ConcAddresses, net \in ConcNetworks :
          StartReverseResolve(address, net)

NextConc ==
    \/ ConcCallResolveName
    \/ ConcCallGetDomainInfo
    \/ ConcCallReverseResolve
    \/ Resume
    \/ Switch

ConcSpec == Init /\ [][NextConc]_vars

-----------------------------------------------------------------------------
(* The pure helpers applied to inputs drawn from the bounded sets.         *)

ApplyParseDomainWithChain(name) ==
    /\ pc = "idle"
    /\ UNCHANGED <<failedCall, lastReply, decoded, replyLog, suspended>>
    /\ op' = "parseDomainWithChain"
    /\ input' = name
    /\ parsed' = parseDomainWithChain(name)
    /\ pc' = "done"
    /\ UNCHANGED <<providers, network, path, coin, node, handle, infoResolver, owner,
                   calls, resolved, result>>

\* The branch resolveName takes for a target, and on the text branch the
\* key resolveTextRecord asks for.
ApplyClassify(target) ==
    /\ pc = "idle"
    /\ UNCHANGED <<failedCall, lastReply, decoded, replyLog, suspended>>
    /\ op' = "classify"
    /\ input' = target
    /\ path' = classify(target)
    /\ node' = IF classify(target) = "text" THEN ensTextKey(target) ELSE s_empty
    /\ pc' = "done"
    /\ UNCHANGED <<providers, network, parsed, coin, handle, infoResolver, owner,
                   calls, resolved, result>>

ApplyGetCoinType(tld) ==
    /\ pc = "idle"
    /\ UNCHANGED <<failedCall, lastReply, decoded, replyLog, suspended>>
    /\ op' = "getCoinType"
    /\ input' = tld
    /\ coin' = getCoinType(tld)
    /\ pc' = "done"
    /\ UNCHANGED <<providers, network, parsed, path, node, handle, infoResolver, owner,
                   calls, resolved, result>>

ApplyBytesToAddress(addressBytes, tld, ecc) ==
    LET outcome == bytesToAddress(addressBytes, tld, ecc)
    IN  /\ pc = "idle"
        /\ op' = "bytesToAddress"
        /\ input' = addressBytes
        /\ decoded' = Decoding(addressBytes, tld, outcome)
        /\ result' = IF outcome.kind = "return" THEN Str(outcome.val)
                     ELSE Thrown("bytesToAddress")
        /\ pc' = "done"
        /\ UNCHANGED <<providers, network, parsed, path, coin, node, handle,
                       infoResolver, owner, calls, resolved, failedCall, lastReply,
                       replyLog, suspended>>

NextPure ==
    \/ \E name \in Inputs : ApplyParseDomainWithChain(name)
    \/ \E target \in Targets : ApplyClassify(target)
    \/ \E tld \in Targets : ApplyGetCoinType(tld)
    \/ \E addressBytes \in DecodeInputs, tld \in DecodeTlds, ecc \in BOOLEAN :
          ApplyBytesToAddress(addressBytes, tld, ecc)

PureSpec == Init /\ [][NextPure]_vars

-----------------------------------------------------------------------------
(* Properties.  Spec is the specification unless PureSpec is named.        *)

PublicOps == {"resolveName", "getDomainInfo", "reverseResolve"}

HasColon(s) == \E i \in 1..Len(s) : s[i] = ":"
HasDot(s) == \E i \in 1..Len(s) : s[i] = "."

\* The text before, and after, the last occurrence of ch in s (s has one).
LastPos(s, ch) ==
    CHOOSE i \in 1..Len(s) : s[i] = ch /\ ~\E j \in 1..Len(s) : j > i /\ s[j] = ch
BeforeLast(s, ch) == SubSeq(s, 1, LastPos(s, ch) - 1)
AfterLast(s, ch) == SubSeq(s, LastPos(s, ch) + 1, Len(s))

\* The final dot-delimited label of s.
FinalLabel(s) == IF HasDot(s) THEN AfterLast(s, ".") ELSE s

\* C1: when resolveName is given a new-syntax input whose base portion does
\* not end with '.eth', the format error reaches the caller as a failure and
\* not as null.
C1_FormatErrorReported ==
    (op = "resolveName" /\ pc = "done" /\ parsed.error = "Invalid format")
        => result.kind = "throw"

\* C2: when a public method is called with a network that is not configured,
\* the caller gets a fault, distinguishable from the null of "not found".
C2_UnsupportedNetworkReported ==
    (op \in PublicOps /\ pc = "done" /\ ~networkSupported(network))
        => result.kind = "throw"

\* C3 as stated: once a collaborator round trip has failed, the operation
\* returns null.
C3_FailedRoundTripGivesNull ==
    (op \in PublicOps /\ pc = "done" /\ failedCall # "none") => result = Null

ResolveAwaits == {"r_block", "r_resolver", "r_addr", "r_addrcoin", "r_text"}

\* C3 as amended: a failed round trip is never propagated as an exception;
\* resolveName and reverseResolve return null, getDomainInfo returns null
\* when its own resolver or owner lookup fails, and when the failure is
\* inside its call of resolveName it returns its record with address ''.
C3_FailedRoundTripRecovered ==
    (op \in PublicOps /\ pc = "done" /\ failedCall # "none")
        => /\ result.kind # "throw"
           /\ IF op = "getDomainInfo" /\ failedCall \in ResolveAwaits
              THEN /\ result.kind = "info"
                   /\ result.address = s_empty
                   /\ result.val = input
                   /\ resolved = Null
              ELSE result = Null

C3_Witness ==
    /\ op = "getDomainInfo"
    /\ pc = "done"
    /\ failedCall = "r_addr"
    /\ result.kind = "info"

\* C4: an input '<label>.eth:<chain>' with a supported chain code parses to
\* baseDomain '<label>.eth' and target '<chain>'.
C4_NewSyntaxSplit ==
    parsed # NotParsed =>
        \A chain \in coinTypeKeys :
            EndsWith(input, s_dot_eth \o <<":">> \o chain)
                => /\ parsed.ok
                   /\ parsed.baseDomain = SubSeq(input, 1, Len(input) - Len(chain) - 1)
                   /\ parsed.targetChain = chain

C4_Witness ==
    /\ op = "parseDomainWithChain"
    /\ input = <<"a">> \o s_dot_eth \o <<":">> \o s_btc
    /\ parsed = Parsed(<<"a">> \o s_dot_eth, s_btc)

\* C5: an input with a ':' is split at its last ':' and nowhere else; when
\* the text before that colon does not end with '.eth' the parse fails with
\* the format error, and the legacy branch is never taken.
C5_ColonMeansNewSyntax ==
    (parsed # NotParsed /\ HasColon(input))
        => IF EndsWith(BeforeLast(input, ":"), s_dot_eth)
           THEN parsed = Parsed(BeforeLast(input, ":"), AfterLast(input, ":"))
           ELSE parsed = Threw("Invalid format")

\* '.eth:btc:btc': the text before the first colon ends with '.eth', the
\* text before the last one does not.
C5_Witness ==
    /\ op = "parseDomainWithChain"
    /\ input = s_dot_eth \o <<":">> \o s_btc \o <<":">> \o s_btc
    /\ parsed = Threw("Invalid format")

\* C6: a legacy input '<name>.<t>' whose final label t is a text-record alias
\* or a multi-chain code parses as '<name>.eth:<t>' does: target t, and
\* baseDomain the input with only the final '.<t>' replaced by '.eth'.
C6_LegacyEquivalence ==
    (parsed # NotParsed /\ ~HasColon(input) /\ HasDot(input)
        /\ FinalLabel(input) \in textRecordTypes \cup multiChainTLDs)
        => /\ parsed = Parsed(BeforeLast(input, ".") \o s_dot_eth, FinalLabel(input))
           /\ parsed = parseDomainWithChain(
                 BeforeLast(input, ".") \o s_dot_eth \o <<":">> \o FinalLabel(input))

\* C7 as stated: a colon-free input whose final label is neither an alias
\* nor a multi-chain code parses, without failing, to itself and 'eth'.
C7_UnrecognizedIsNative ==
    (parsed # NotParsed /\ ~HasColon(input)
        /\ FinalLabel(input) \notin textRecordTypes \cup multiChainTLDs)
        => parsed = Parsed(input, s_eth)

\* C7 as amended: the same, for a final label that is not empty.
C7_NonEmptyUnrecognizedIsNative ==
    (parsed # NotParsed /\ ~HasColon(input)
        /\ FinalLabel(input) # s_empty
        /\ FinalLabel(input) \notin textRecordTypes \cup multiChainTLDs)
        => parsed = Parsed(input, s_eth)

C7_Witness ==
    /\ op = "parseDomainWithChain"
    /\ input = <<"a", ".", "a">>
    /\ parsed = Parsed(<<"a", ".", "a">>, s_eth)

\* C8: resolveName and getDomainInfo issue no registry or resolver call
\* before the input is parsed and its target classified.
C8_ClassifiedBeforeRegistry ==
    (op \in {"resolveName", "getDomainInfo"}
        /\ \E i \in 1..Len(calls) : calls[i].fn # "provider.getBlockNumber")
        => (parsed.ok /\ path \in {"text", "multi", "native"})

\* C9: every target takes exactly one of the three branches: text-record
\* for the eight aliases (with the key x -> com.twitter, github ->
\* com.github, bio -> description, any other alias itself), native for
\* 'eth', multi-chain for everything else.
C9_ClassificationTotal ==
    (op = "classify" /\ pc = "done")
        => /\ path \in {"text", "multi", "native"}
           /\ path = "text" <=>
                 input \in {<<"x">>, <<"u","r","l">>, <<"g","i","t","h","u","b">>,
                            <<"n","a","m","e">>, <<"b","i","o">>,
                            <<"d","e","s","c","r","i","p","t","i","o","n">>,
                            <<"a","v","a","t","a","r">>, <<"h","e","a","d","e","r">>}
           /\ path = "native" <=> input = <<"e","t","h">>
           /\ path = "text" =>
                 node = CASE input = <<"x">> -> s_com_twitter
                          [] input = <<"g","i","t","h","u","b">> -> s_com_github
                          [] input = <<"b","i","o">> -> s_description
                          [] OTHER -> input

C9_Witness ==
    /\ op = "classify"
    /\ pc = "done"
    /\ input = s_bio
    /\ path = "text"
    /\ node = s_description

\* C10: getCoinType returns 60 for every string that is not a key of the
\* coin-type table.
C10_CoinTypeDefault ==
    (op = "getCoinType" /\ pc = "done" /\ input \notin coinTypeKeys)
        => coin = Num(60)

\* C11 (as stated): getCoinType returns the listed integer for each chain
\* code of the list, spelled as the list spells it: arbitrum 42161,
\* avalanche 43114, optimism 10.
C11_ListedCoinTypes ==
    (op = "getCoinType" /\ pc = "done") =>
        /\ input = <<"a","r","b","i","t","r","u","m">> => coin = Num(42161)
        /\ input = <<"a","v","a","l","a","n","c","h","e">> => coin = Num(43114)
        /\ input = <<"o","p","t","i","m","i","s","m">> => coin = Num(10)

\* C11 (amended): getCoinType returns the listed integer for each chain
\* code of the table, the codes of Arbitrum, Avalanche and Optimism being
\* 'arbi', 'avax' and 'op'; the native code is 'eth'.
C11_TableCoinTypes ==
    (op = "getCoinType" /\ pc = "done") =>
        /\ input = <<"e","t","h">> => coin = Num(60)
        /\ input = <<"b","t","c">> => coin = Num(0)
        /\ input = <<"s","o","l">> => coin = Num(501)
        /\ input = <<"d","o","g","e">> => coin = Num(3)
        /\ input = <<"x","r","p">> => coin = Num(144)
        /\ input = <<"l","t","c">> => coin = Num(2)
        /\ input = <<"a","d","a">> => coin = Num(1815)
        /\ input = <<"b","a","s","e">> => coin = Num(8453)
        /\ input = <<"a","r","b","i">> => coin = Num(42161)
        /\ input = <<"p","o","l","y","g","o","n">> => coin = Num(137)
        /\ input = <<"a","v","a","x">> => coin = Num(43114)
        /\ input = <<"b","s","c">> => coin = Num(56)
        /\ input = <<"o","p">> => coin = Num(10)
        /\ input = <<"z","o","r","a">> => coin = Num(7777777)
        /\ input = <<"l","i","n","e","a">> => coin = Num(59144)
        /\ input = <<"s","c","r","o","l","l">> => coin = Num(534352)
        /\ input = <<"m","a","n","t","l","e">> => coin = Num(5000)
        /\ input = <<"c","e","l","o">> => coin = Num(42220)
        /\ input = <<"g","n","o","s","i","s">> => coin = Num(100)
        /\ input = <<"f","a","n","t","o","m">> => coin = Num(250)

C11_Witness ==
    /\ op = "getCoinType"
    /\ pc = "done"
    /\ input = <<"b","t","c">>
    /\ coin = Num(0)

\* C12: bytesToAddress never fails: for every byte string and chain code it
\* returns a string and throws nothing, whichever encoder call of a chain's
\* branch throws.
C12_DecodeNeverThrows ==
    (op = "bytesToAddress" /\ pc = "done") =>
        /\ decoded.ran
        /\ decoded.kind = "return"
        /\ result = Str(decoded.val)

\* An encoder call threw (ethers.getAddress, which only the outer catch
\* covers) and a string came back.
C12_Witness ==
    /\ op = "bytesToAddress"
    /\ pc = "done"
    /\ decoded.tld = s_base
    /\ Len(decoded.libCalls) = 1
    /\ decoded.libCalls[1].fn = "getAddress"
    /\ ~decoded.libCalls[1].ok
    /\ result.kind = "string"

\* C13: whenever bytesToAddress does not produce a chain-native address (no
\* branch matched the bytes, or an encoder call threw), the string it
\* returns is the chain code, '_' and the hex digits of the bytes (written
\* with or without '0x'), never the untagged bytes.
C13_FallbackIsTagged ==
    (/\ op = "bytesToAddress"
     /\ pc = "done"
     /\ \/ decoded.libCalls = << >>
        \/ ~decoded.libCalls[Len(decoded.libCalls)].ok)
        => \/ result = Str(decoded.tld \o <<"_">> \o input)
           \/ result = Str(decoded.tld \o <<"_">> \o SubSeq(input, 3, Len(input)))

\* C14: on the multi-chain path, when the coin-typed address query comes
\* back with no bytes ('0x', or no value), resolveName returns null and
\* bytesToAddress is not run.
C14_EmptyBytesGiveNull ==
    (/\ pc = "done"
     /\ path = "multi"
     /\ Len(calls) > 0
     /\ calls[Len(calls)].fn = "resolver.addrCoin"
     /\ lastReply.ok
     /\ lastReply.val \in {<< >>, <<"0","x">>})
        => /\ resolved = Null
           /\ ~decoded.ran
           /\ op = "resolveName" => result = Null

C14_Witness ==
    /\ op = "resolveName"
    /\ pc = "done"
    /\ path = "multi"
    /\ calls[Len(calls)].fn = "resolver.addrCoin"
    /\ lastReply = [ok |-> TRUE, val |-> s_0x]
    /\ result = Null
    /\ ~decoded.ran

\* C15: on the native path (target 'eth') resolveName does not run
\* bytesToAddress: when resolver.addr hands back a nonzero address the
\* result is that address string as it came back, and when it hands back
\* the zero address the result is null.
C15_NativeNeverDecodes ==
    (pc = "done" /\ path = "native") =>
        /\ ~decoded.ran
        /\ (/\ Len(calls) > 0
            /\ calls[Len(calls)].fn = "resolver.addr"
            /\ lastReply.ok)
              => /\ resolved =
                      IF lastReply.val = [i \in 1..42 |-> IF i = 2 THEN "x" ELSE "0"]
                      THEN Null
                      ELSE [kind |-> "string", val |-> lastReply.val]
                 /\ op = "resolveName" => result = resolved

C15_Witness ==
    /\ op = "resolveName"
    /\ pc = "done"
    /\ path = "native"
    /\ calls[Len(calls)].fn = "resolver.addr"
    /\ lastReply = [ok |-> TRUE, val |-> SomeAddress]
    /\ result = Str(SomeAddress)
    /\ ~decoded.ran

\* C16: for 'btc' the encoder is chosen by the number of bytes: 20 bytes are
\* encoded as a legacy P2PKH address of that hash, 22 bytes whose first byte
\* is 0 and second byte is 20 as a segwit v0 P2WPKH address of the other 20
\* bytes, 25 bytes as a P2PKH address of the serialized payload, 32 bytes as
\* a taproot P2TR address; and when the encoder call succeeds its address
\* is returned, not the hex-tagged string.
C16_BtcEncoderByLength ==
    (op = "bytesToAddress" /\ pc = "done" /\ decoded.tld = <<"b","t","c">>) =>
        LET hex == SubSeq(input, 3, Len(input))
            n == Len(hex) \div 2
            call == decoded.libCalls[1]
            Chosen(fn, arg, data, enc) ==
                /\ Len(decoded.libCalls) = 1
                /\ call.fn = fn
                /\ call.arg = arg
                /\ call.data = data
                /\ call.network.bech32 = "bc"
                /\ call.network.pubKeyHash = 0
                /\ call.ok => /\ result.kind = "string"
                              /\ result.val[1] = enc
                              /\ result.val # <<"b","t","c","_">> \o hex
        IN  /\ n = 20 => Chosen("p2pkh", "hash", hex, "base58check")
            /\ (n = 22 /\ SubSeq(hex, 1, 4) = <<"0","0","1","4">>)
                  => Chosen("p2wpkh", "hash", SubSeq(hex, 5, 44), "bech32")
            /\ n = 25 => Chosen("p2pkh", "output", hex, "base58check")
            /\ n = 32 => Chosen("p2tr", "pubkey", hex, "bech32m")

\* 22 bytes 00 14 <20 bytes>: the segwit address of the 20 bytes.
C16_Witness ==
    /\ op = "bytesToAddress"
    /\ pc = "done"
    /\ decoded.tld = s_btc
    /\ BufLen(Slice2(input)) = 22
    /\ Len(decoded.libCalls) = 1
    /\ decoded.libCalls[1].fn = "p2wpkh"
    /\ decoded.libCalls[1].ok
    /\ result = Str(<<"bech32", "bc", "0">> \o SubSeq(input, 7, 46))

\* C17 (as stated): for 'btc', whenever the length-selected encoder does not
\* apply (a length other than 20, 22, 25, 32, or 22 bytes not starting
\* 00 14) or the chosen encoder call throws, the bytes are tried again as a
\* legacy P2PKH hash, and the hex-tagged string is returned only when that
\* call fails too; nothing is thrown.
C17_BtcAlwaysRetries ==
    (op = "bytesToAddress" /\ pc = "done" /\ decoded.tld = <<"b","t","c">>) =>
        LET hex == SubSeq(input, 3, Len(input))
            n == Len(hex) \div 2
            applies == \/ n \in {20, 25, 32}
                       \/ n = 22 /\ SubSeq(hex, 1, 4) = <<"0","0","1","4">>
            last == decoded.libCalls[Len(decoded.libCalls)]
        IN  /\ result.kind = "string"
            /\ (~applies \/ ~decoded.libCalls[1].ok) =>
                  /\ Len(decoded.libCalls) = IF applies THEN 2 ELSE 1
                  /\ last.fn = "p2pkh"
                  /\ last.arg = "hash"
                  /\ last.data = hex
                  /\ ~last.ok <=> result.val = <<"b","t","c","_">> \o hex

\* C17 (amended): for 'btc', when the length-selected encoder does not apply
\* the bytes are tried as a legacy P2PKH hash, and the hex-tagged string is
\* returned when that call fails; when the chosen encoder call throws, the
\* hex-tagged string is returned with no further encoder call; nothing is
\* thrown.
C17_BtcRetriesUnlessThrown ==
    (op = "bytesToAddress" /\ pc = "done" /\ decoded.tld = <<"b","t","c">>) =>
        LET hex == SubSeq(input, 3, Len(input))
            n == Len(hex) \div 2
            applies == \/ n \in {20, 25, 32}
                       \/ n = 22 /\ SubSeq(hex, 1, 4) = <<"0","0","1","4">>
            call == decoded.libCalls[1]
        IN  /\ result.kind = "string"
            /\ Len(decoded.libCalls) = 1
            /\ ~applies =>
                  /\ call.fn = "p2pkh"
                  /\ call.arg = "hash"
                  /\ call.data = hex
                  /\ call.network.pubKeyHash = 0
            /\ ~call.ok <=> result.val = <<"b","t","c","_">> \o hex

\* 25 bytes that are no pay-to-pubkey-hash script: the chosen call throws
\* and the hex-tagged string comes back.
C17_Witness ==
    /\ op = "bytesToAddress"
    /\ pc = "done"
    /\ decoded.tld = s_btc
    /\ BufLen(Slice2(input)) = 25
    /\ Len(decoded.libCalls) = 1
    /\ decoded.libCalls[1].arg = "output"
    /\ ~decoded.libCalls[1].ok
    /\ result = Str(HexTagged(s_btc, Slice2(input)))

\* C18: for 'sol', bytesToAddress returns the base-58 rendering of the bytes
\* exactly when there are 32 of them, whatever their content and without
\* throwing; for any other length it returns 'sol_<hex>'.
C18_SolBase58Iff32Bytes ==
    (op = "bytesToAddress" /\ pc = "done" /\ decoded.tld = <<"s","o","l">>) =>
        LET hex == SubSeq(input, 3, Len(input))
        IN  /\ result.kind = "string"
            /\ Len(hex) = 64 => result.val = <<"base58">> \o hex
            /\ Len(hex) # 64 => result.val = <<"s","o","l","_">> \o hex

C18_Witness ==
    /\ op = "bytesToAddress"
    /\ pc = "done"
    /\ decoded.tld = s_sol
    /\ input = s_0x \o Rep("0", 64)
    /\ decoded.libCalls[1].fn = "toBase58"
    /\ result = Str(Enc("base58", Rep("0", 64)))

\* C19: for 'doge', 20 bytes are encoded as a legacy P2PKH address of that
\* hash and 25 bytes as a P2PKH address of the serialized payload; every
\* other length goes to the legacy P2PKH decode and, that failing, to
\* 'doge_<hex>'; every encoder call is made with the Dogecoin constants
\* (pubKeyHash 0x1e, scriptHash 0x16), none with Bitcoin's.
C19_DogeBranchesAndNetwork ==
    (op = "bytesToAddress" /\ pc = "done" /\ decoded.tld = <<"d","o","g","e">>) =>
        LET hex == SubSeq(input, 3, Len(input))
            n == Len(hex) \div 2
            call == decoded.libCalls[1]
        IN  /\ result.kind = "string"
            /\ Len(decoded.libCalls) = 1
            /\ call.fn = "p2pkh"
            /\ call.arg = IF n = 25 THEN "output" ELSE "hash"
            /\ call.data = hex
            /\ call.network.pubKeyHash = 30
            /\ call.network.scriptHash = 22
            /\ call.ok => /\ result.val[1] = "base58check"
                          /\ result.val[2] = "30"
            /\ ~call.ok <=> result.val = <<"d","o","g","e","_">> \o hex
            /\ n \notin {20, 25} => ~call.ok

C19_Witness ==
    /\ op = "bytesToAddress"
    /\ pc = "done"
    /\ decoded.tld = s_doge
    /\ BufLen(Slice2(input)) = 20
    /\ decoded.libCalls[1].network = dogecoinNetwork
    /\ result = Str(<<"base58check", "30">> \o Slice2(input))

\* C20: for 'eth' and the EVM chain codes of line 493, bytesToAddress
\* renders 20 bytes as the checksummed hex address, and for bytes that are
\* fewer than 20 or otherwise not 20 it returns the chain code, '_' and the
\* hex of the bytes.
C20_EvmChecksumOrTagged ==
    (/\ op = "bytesToAddress"
     /\ pc = "done"
     /\ decoded.tld \in {<<"e","t","h">>, <<"b","a","s","e">>, <<"a","r","b","i">>,
                         <<"p","o","l","y","g","o","n">>, <<"a","v","a","x">>,
                         <<"b","s","c">>, <<"o","p">>})
        => /\ Len(input) = 42 => result = Str(<<"checksum">> \o input)
           /\ Len(input) # 42 =>
                 \/ result = Str(decoded.tld \o <<"_">> \o input)
                 \/ result = Str(decoded.tld \o <<"_">> \o SubSeq(input, 3, Len(input)))

\* C21: for each of the codes xrp, ltc, ada, zora, linea, scroll, mantle,
\* celo, gnosis, fantom and every non-empty byte string, bytesToAddress
\* returns the code, '_' and the hex string of the bytes as the resolver
\* handed it over, and calls no encoder.
C21_GenericCodesTagged ==
    (/\ op = "bytesToAddress"
     /\ pc = "done"
     /\ decoded.tld \in {<<"x","r","p">>, <<"l","t","c">>, <<"a","d","a">>,
                         <<"z","o","r","a">>, <<"l","i","n","e","a">>,
                         <<"s","c","r","o","l","l">>, <<"m","a","n","t","l","e">>,
                         <<"c","e","l","o">>, <<"g","n","o","s","i","s">>,
                         <<"f","a","n","t","o","m">>})
        => /\ result = [kind |-> "string", val |-> decoded.tld \o <<"_">> \o input]
           /\ decoded.libCalls = << >>

C21_Witness ==
    /\ op = "bytesToAddress"
    /\ pc = "done"
    /\ decoded.tld = s_xrp
    /\ input = s_0x \o Rep("0", 40)
    /\ result = Str(s_xrp \o s_underscore \o s_0x \o Rep("0", 40))
    /\ decoded.libCalls = << >>

\* C22: the name reverseResolve looks up is the address without its '0x'
\* prefix, in lower case, followed by '.addr.reverse'; nothing but the
\* prefix is removed, and the name depends on the address alone.
C22_ReverseKey ==
    (op = "reverseResolve" /\ SubSeq(input, 1, 2) = <<"0","x">>) =>
        LET stripped == SubSeq(input, 3, Len(input))
            lower == [i \in 1..Len(stripped) |->
                        CASE stripped[i] = "A" -> "a"
                          [] stripped[i] = "B" -> "b"
                          [] OTHER -> stripped[i]]
            key == lower \o <<".","a","d","d","r",".","r","e","v","e","r","s","e">>
        IN  \A i \in 1..Len(calls) : calls[i].key = key

\* '0x0xAb' is looked up as '0xab.addr.reverse'.
C22_Witness ==
    /\ op = "reverseResolve"
    /\ pc = "done"
    /\ input = <<"0","x","0","x","A","b">>
    /\ Len(calls) = 2
    /\ calls[2].fn = "resolver.name"
    /\ calls[2].key = <<"0","x","a","b">> \o s_addr_reverse

\* C23: what resolveName and reverseResolve hand to their caller is null or
\* a non-empty string: an empty text record, an empty reverse name, empty
\* address bytes and a zero address all come back as null, never as '' or
\* as the zero address (checksum(...) is how the string ethers.getAddress
\* returns is written).
C23_StringOrNull ==
    (op \in {"resolveName", "reverseResolve"} /\ pc = "done") =>
        LET zero == [i \in 1..42 |-> IF i = 2 THEN "x" ELSE "0"]
        IN  \/ result = [kind |-> "null", val |-> << >>]
            \/ /\ result.kind = "string"
               /\ result.val # << >>
               /\ result.val # zero
               /\ result.val # <<"checksum">> \o zero

\* C24: every registry and resolver lookup that resolveName and
\* getDomainInfo issue is keyed by the base domain the parser derived from
\* the input, never by the input as given.
C24_LookupsKeyedByParsedDomain ==
    (op \in {"resolveName", "getDomainInfo"}) =>
        \A i \in 1..Len(calls) :
            calls[i].fn # "provider.getBlockNumber" =>
                /\ parseDomainWithChain(input).ok
                /\ calls[i].key = parseDomainWithChain(input).baseDomain

\* C25 (as stated): within one invocation every collaborator query (same
\* call, same key) is issued at most once.
C25_NoQueryTwice ==
    \A i, j \in 1..Len(calls) : i < j => calls[i] # calls[j]

\* What holds of the calls of one invocation at every moment.
C25_CallsInvariant ==
    /\ failedCall # "none" => pc = "done"
    /\ op \in {"resolveName", "reverseResolve"} =>
          \A i, j \in 1..Len(calls) : i < j => calls[i] # calls[j]
    /\ op = "getDomainInfo" =>
          \A i, j \in 1..Len(calls) :
              (i < j /\ calls[i] = calls[j]) =>
                  /\ i = 1
                  /\ j = 4
                  /\ calls[i].fn = "registry.resolver"
    /\ op = "resolveName" => Len(calls) <= 3
    /\ op = "reverseResolve" => Len(calls) <= 2
    /\ op = "getDomainInfo" => Len(calls) <= 5

\* How far an invocation has come: the number of the await it is suspended
\* at, counted along the longest path to it.
C25_Position(at) ==
    CASE at = "idle" -> 0
      [] at \in {"d_resolver", "v_resolver"} -> 1
      [] at \in {"d_owner", "v_name"} -> 2
      [] at = "r_block" -> 3
      [] at = "r_resolver" -> 4
      [] at \in {"r_addr", "r_addrcoin", "r_text"} -> 5
      [] at = "done" -> 6

\* C25 (amended): no round trip that failed is attempted again (the
\* invocation ends with the failure); resolveName and reverseResolve issue
\* no query twice, getDomainInfo issues none twice but the registry's
\* resolver query, which it issues itself and again inside resolveName; an
\* invocation makes at most 3 (resolveName), 2 (reverseResolve), 5
\* (getDomainInfo) round trips, every round trip that comes back moves it
\* on to a later await or to its end, and it never waits for nothing.
C25_NoRetries ==
    /\ [] C25_CallsInvariant
    /\ [] (pc \notin {"idle", "done"} => ENABLED Next)
    /\ [][C25_Position(pc') > C25_Position(pc)]_vars

\* getDomainInfo('a.eth') asks the registry for the resolver twice.
C25_Witness ==
    /\ op = "getDomainInfo"
    /\ pc = "done"
    /\ input = <<"a">> \o s_dot_eth
    /\ Len(calls) = 5
    /\ calls[1] = calls[4]
    /\ calls[1].fn = "registry.resolver"

\* What resolveName returns when it runs alone, as a function of its
\* arguments and of the replies it receives, in order.
C26_AloneResolveName(name, net, log) ==
    IF ~networkSupported(net) THEN Null
    ELSE IF ~log[1].ok THEN Null
    ELSE LET p == parseDomainWithChain(name)
             way == classify(p.targetChain)
             coinType == getCoinType(p.targetChain)
         IN  IF ~p.ok \/ namehashThrows(p.baseDomain) THEN Null
             ELSE IF ~log[2].ok \/ log[2].val = ZeroAddress THEN Null
             ELSE IF way = "text"
             THEN IF ~log[3].ok \/ log[3].val = s_empty
                  THEN Null ELSE Str(log[3].val)
             ELSE IF way = "native" \/ coinType = Num(60)
             THEN IF ~log[3].ok \/ log[3].val = ZeroAddress
                  THEN Null ELSE Str(log[3].val)
             ELSE IF ~coinType.isNumber THEN Null
             ELSE IF ~log[3].ok \/ log[3].val \in {s_empty, s_0x} THEN Null
             ELSE Str(bytesToAddress(log[3].val, p.targetChain, log[4].ok).val)

\* The same for any of the three public methods, given the locals of the
\* invocation at its end.
C26_Alone(l) ==
    IF l.op = "resolveName"
    THEN C26_AloneResolveName(l.input, l.network, l.replyLog)
    ELSE IF l.op = "getDomainInfo"
    THEN IF ~networkSupported(l.network) \/ namehashThrows(l.input) THEN Null
         ELSE IF ~l.replyLog[1].ok THEN Null
         ELSE IF ~l.replyLog[2].ok THEN Null
         ELSE IF l.replyLog[1].val = ZeroAddress THEN Null
         ELSE DomainInfo(l.input,
                         C26_AloneResolveName(l.input, l.network,
                             SubSeq(l.replyLog, 3, Len(l.replyLog))),
                         l.replyLog[1].val, l.network, l.replyLog[2].val)
    ELSE IF ~networkSupported(l.network) \/ namehashThrows(reverseName(l.input))
         THEN Null
         ELSE IF ~l.replyLog[1].ok \/ l.replyLog[1].val = ZeroAddress THEN Null
         ELSE IF ~l.replyLog[2].ok \/ l.replyLog[2].val = s_empty THEN Null
         ELSE Str(l.replyLog[2].val)

C26_ResultsAsAlone ==
    /\ pc = "done" => result = C26_Alone(Locals)
    /\ suspended.pc = "done" => suspended.result = C26_Alone(suspended)

\* C26: however the handlers of two invocations in flight are interleaved at
\* their awaits, each invocation returns what it would return running alone
\* and receiving the same replies, and no handler changes the provider
\* table (the network table, the coin-type table and the alias maps are
\* constants).
C26_RequestIsolation ==
    /\ [] C26_ResultsAsAlone
    /\ [][providers' = providers]_vars

\* resolveName has begun and ended while getDomainInfo waits for the
\* registry.
C26_Witness ==
    /\ op = "resolveName"
    /\ pc = "done"
    /\ result.kind = "string"
    /\ suspended.op = "getDomainInfo"
    /\ suspended.pc = "d_owner"
    /\ Len(suspended.replyLog) = 1

-----------------------------------------------------------------------------
(* The order of the round trips of resolveName.                            *)

\* The queries resolveName has sent to the registry and to a resolver, in
\* order (the connectivity probe of line 125 is a provider call).
C27_Queries == SelectSeq(calls, LAMBDA c : c.fn # "provider.getBlockNumber")
C27_RecordQueries == {"resolver.addr", "resolver.addrCoin", "resolver.text"}
\* The reply of ensRegistry.resolver has arrived, and it is `a resolver`.
C27_ResolverReplied == op = "resolveName" /\ Len(replyLog) >= 2 /\ replyLog[2].ok

\* C27: on every path of resolveName the registry's resolver query is the
\* first query, exactly one record query (addr, coin-typed addr or text)
\* follows it and is sent to the resolver the registry returned; when the
\* registry returns the zero address, resolveName returns null and sends no
\* record query.
C27_ResolverThenOneRecordQuery ==
    op = "resolveName" =>
        /\ Len(C27_Queries) >= 1 => C27_Queries[1].fn = "registry.resolver"
        /\ Len(C27_Queries) <= 2
        /\ Len(C27_Queries) = 2 =>
              /\ C27_Queries[2].fn \in C27_RecordQueries
              /\ C27_Queries[2].to = replyLog[2].val
              /\ C27_Queries[2].to = handle
        /\ (C27_ResolverReplied /\ replyLog[2].val # ZeroAddress) =>
              Len(C27_Queries) = 2
        /\ (C27_ResolverReplied /\ replyLog[2].val = ZeroAddress) =>
              /\ Len(C27_Queries) = 1
              /\ pc = "done"
              /\ result = Null

-----------------------------------------------------------------------------
(* What getDomainInfo returns.                                             *)

\* getDomainInfo has returned.
C28_Returned == op = "getDomainInfo" /\ pc = "done"
\* The three causes of a null: the network has no provider, one of the two
\* registry queries of lines 525-526 failed, the registry's resolver is the
\* zero address.
C28_NullCause ==
    \/ ~networkSupported(network)
    \/ failedCall \in {"d_resolver", "d_owner"}
    \/ (Len(replyLog) >= 2 /\ infoResolver = ZeroAddress)
\* What resolveName returns for the same input and the replies the nested
\* call received.
C28_Resolve ==
    C26_AloneResolveName(input, network, SubSeq(replyLog, 3, Len(replyLog)))

\* C28: getDomainInfo returns null exactly when the network is unsupported,
\* a registry query fails or the registry's resolver is the zero address;
\* otherwise it returns a record whose name is the input, whose resolver is
\* the registry's resolver, whose address is what resolveName returns for
\* the same input ('' when that is null), and whose owner is present exactly
\* when the registry's owner is not the zero address.
C28_NullExactlyForThreeCauses ==
    C28_Returned =>
        /\ result = Null <=> C28_NullCause
        /\ result # Null =>
              /\ result.kind = "info"
              /\ result.val = input
              /\ result.resolver = replyLog[1].val
              /\ result.address = IF C28_Resolve.kind = "string"
                                  THEN C28_Resolve.val ELSE s_empty
              /\ result.hasOwner <=> replyLog[2].val # ZeroAddress
              /\ result.hasOwner => result.owner = replyLog[2].val

-----------------------------------------------------------------------------
(* The record query of resolveMultiChainTLD.                               *)

\* resolveName is on the multi-chain path and the registry has returned a
\* resolver (line 230 is passed).
C29_OnMultiChainPath ==
    /\ op = "resolveName"
    /\ path = "multi"
    /\ parsed.ok
    /\ handle # s_empty
C29_CoinType == getCoinType(parsed.targetChain)
C29_CoinTyped ==
    /\ Len(C27_Queries) = 2
    /\ C27_Queries[2] =
          At(handle, CallCoin("resolver.addrCoin", parsed.baseDomain, C29_CoinType))
C29_Native ==
    /\ Len(C27_Queries) = 2
    /\ C27_Queries[2] = At(handle, Call("resolver.addr", parsed.baseDomain))
\* The record query has returned a value.
C29_RecordReplied == pc = "done" /\ Len(replyLog) >= 3 /\ replyLog[3].ok

\* C29: on the multi-chain path the record query is chosen by
\* getCoinType(target) alone: addr(bytes32,uint256) followed by
\* bytesToAddress exactly when the coin type is not 60, and for a coin type
\* of 60 (an unrecognized or empty chain code) addr(bytes32), whose address
\* resolveName returns as it is.
C29_QueryChosenByCoinType ==
    C29_OnMultiChainPath =>
        /\ C29_CoinType # Num(60) <=> C29_CoinTyped
        /\ C29_CoinType = Num(60) <=> C29_Native
        /\ decoded.ran => C29_CoinType # Num(60)
        /\ (C29_RecordReplied /\ C29_CoinType # Num(60)
              /\ replyLog[3].val \notin {s_empty, s_0x})
              => /\ decoded.ran
                 /\ decoded.addressBytes = replyLog[3].val
                 /\ decoded.tld = parsed.targetChain
        /\ (C29_RecordReplied /\ C29_CoinType = Num(60))
              => /\ ~decoded.ran
                 /\ result = IF replyLog[3].val = ZeroAddress THEN Null
                             ELSE Str(replyLog[3].val)

====
